---- MODULE Spec2Model ----
(***************************************************************************)
(* A model of src/blackjack.py: the hand valuation methods, the wager      *)
(* operations, and play_game as a state machine whose steps are the        *)
(* blocks of play_game between two prompts or two deals.                   *)
(*                                                                         *)
(* A card is a record [rank, suit, points]; Card.name is rank + suit, so   *)
(* name.startswith("A") is rank = "A" and name[0] is the rank's first      *)
(* character.  A hand is a record [cards, value, blackjack]: the list      *)
(* contents and the two attributes of class Hand.                          *)
(***************************************************************************)
EXTENDS Integers, Sequences, FiniteSets

\* ---------------------------------------------------------------- bounds
\* The deck of the model holds the first NumRanks ranks of RankOrder in the
\* first NumSuits suits; the program's deck holds 13 ranks in 4 suits.
NumRanks == 3
NumSuits == 3
\* Players at the table (the program admits up to 7).
MaxPlayers == 2
\* Rounds played before the model stops starting new ones.
MaxRounds == 1
\* For the methods of Hand checked on their own: the cards of a hand, and
\* the calls of reset_ace_value in a row.
MaxCards == 4
MaxResets == 2

\* ------------------------------------------------------- program constants
LIMIT == 21
StartMoney == 1000

RANKS_POINTS ==
    [r \in {"A", "2", "3", "4", "5", "6", "7", "8", "9", "10", "J", "Q", "K"} |->
        CASE r = "A" -> 11
          [] r = "2" -> 2
          [] r = "3" -> 3
          [] r = "4" -> 4
          [] r = "5" -> 5
          [] r = "6" -> 6
          [] r = "7" -> 7
          [] r = "8" -> 8
          [] r = "9" -> 9
          [] OTHER -> 10]

\* The keys of RANKS_POINTS, listed so that a short prefix already holds an
\* Ace, a ten-point rank and a low card.
RankOrder == <<"A", "10", "6", "K", "5", "J", "2", "3", "4", "7", "8", "9", "Q">>

DeckRanks == {RankOrder[i] : i \in 1..NumRanks}

\* What the bet prompt may receive: an amount above the starting bankroll,
\* the whole starting bankroll, a small odd amount and a negative amount.
BetInputs == {-1001, 1, 1000, 1001}
\* What the double-down prompt may receive when `maximum` is the most it
\* accepts: the largest amount it accepts and the smallest it rejects.
AdditionalInputs(maximum) == {maximum, maximum + 1}
\* choice.upper() of the decision prompt; "X" is any unrecognised token.
ChoiceInputs == {"H", "S", "D", "P", "X"}
\* again.upper() of the continue prompt.
AgainInputs == {"Y", "N", "X"}

\* ------------------------------------------------------------ Card, Deck
Card(rank, suit) == [rank |-> rank, suit |-> suit, points |-> RANKS_POINTS[rank]]

\* Deck.__init__ before the shuffle: every rank in every suit, once.
Deck == {Card(r, s) : r \in DeckRanks, s \in 1..NumSuits}

IsAce(card) == card.rank = "A"

\* card.name[0]
NameHead(card) == IF card.rank = "10" THEN "1" ELSE card.rank

\* shuffle(self) makes every order of the deck possible, so Deck.deal may
\* pop any remaining card.  The code never reads a suit, so of the cards of
\* one rank the model pops the lowest remaining suit.  Where the outcome of
\* the shuffle is given (order is the sequence of the cards from the one
\* dealt next on), Deck.deal pops the head of order.
Dealable(deck, order) ==
    IF order = <<>>
    THEN {c \in deck : \A d \in deck : d.rank = c.rank => c.suit <= d.suit}
    ELSE {Head(order)}

\* The given order of the deck after one card is dealt.
Rest(order) == IF order = <<>> THEN <<>> ELSE Tail(order)

\* ------------------------------------------------------------------ Hand
Hand == [cards |-> <<>>, value |-> 0, blackjack |-> FALSE]

None == <<>>
Some(h) == <<h>>

\* A faulty variant of add_card: an Ace is never revalued on arrival.
add_card_high(h, card) ==
    [h EXCEPT !.cards = Append(@, card), !.value = @ + card.points]

\* A faulty variant of add_card: the value is updated before the Ace is
\* revalued.
add_card_stale(h, card) ==
    LET c == IF IsAce(card) /\ h.value > 10
             THEN [card EXCEPT !.points = 1]
             ELSE card
    IN [h EXCEPT !.cards = Append(@, c), !.value = @ + card.points]

add_card(h, card) ==
    LET c == IF IsAce(card) /\ h.value > 10
             THEN [card EXCEPT !.points = 1]
             ELSE card
    IN [h EXCEPT !.cards = Append(@, c), !.value = @ + c.points]

check_blackjack(h) ==
    [h EXCEPT !.blackjack = (Len(h.cards) = 2 /\ h.value = LIMIT)]

\* A faulty variant of reset_ace_value: the Aces are revalued whatever the
\* value of the hand.
reset_ace_value_always(h) ==
    LET high == {i \in 1..Len(h.cards) :
                   IsAce(h.cards[i]) /\ h.cards[i].points = 11}
    IN [h EXCEPT
          !.cards = [i \in 1..Len(h.cards) |->
                       IF i \in high
                       THEN [h.cards[i] EXCEPT !.points = 1]
                       ELSE h.cards[i]],
          !.value = @ - 10 * Cardinality(high)]

reset_ace_value(h) ==
    IF h.value > LIMIT
    THEN LET high == {i \in 1..Len(h.cards) :
                        IsAce(h.cards[i]) /\ h.cards[i].points = 11}
         IN [h EXCEPT
               !.cards = [i \in 1..Len(h.cards) |->
                            IF i \in high
                            THEN [h.cards[i] EXCEPT !.points = 1]
                            ELSE h.cards[i]],
               !.value = @ - 10 * Cardinality(high)]
    ELSE h

\* A faulty variant of draw_card: the Aces are not revalued after the draw.
draw_card_as_dealt(h, new_card) == add_card(h, new_card)

\* Hand.draw_card once Deck.deal has returned new_card.
draw_card(h, new_card) == reset_ace_value(add_card(h, new_card))

\* ---------------------------------------------------------------- wagers
\* A faulty variant of validate_wager: every amount is accepted.
validate_wager_any(w, maximum) == TRUE

validate_wager(w, maximum) == ~(w > maximum)

\* A faulty variant of max_wager: the bankroll is not looked at.
max_wager_of_hand(w, player_money) == w

\* double_down: max_wager = min(wager, player.money)
max_wager(w, player_money) == IF w < player_money THEN w ELSE player_money

\* int(1.5 * wager): the float product, truncated toward zero.
IntOneAndHalf(w) ==
    IF w >= 0 THEN (3 * w) \div 2 ELSE -((3 * (-w)) \div 2)

\* ----------------------------------------------------------------- state
VARIABLES
    players,       \* the roster: a sequence of player ids
    money,         \* Player.money
    cashout,       \* Player.cashout
    wager,         \* Player.wager
    second_wager,  \* Player.second_wager (0 stands for None)
    stand,         \* Player.stand
    hand,          \* Player.hand
    second_hand,   \* Player.second_hand: None or Some(hand)
    dealer_hand,   \* dealer.hand
    game_deck,     \* the cards still in game_deck
    pc,            \* the position in play_game
    cur,           \* index into players of the running for-loop
    lap,           \* deal_hands' outer loop variable i
    stacked,       \* the order shuffle left game_deck in, <<>> for any order
    round,         \* rounds started so far
    money0,        \* history: Player.money when the round started
    paid,          \* history: amounts credited this round to each hand
    splits,        \* history: split_hand calls this round
    doubled,       \* history: the double-downs of this round, for each hand
    dealer_turns,  \* history: resolve_dealer_hand calls this round
    heard          \* history: the last answer read from input()

\* Everything but the last answer read.
engine == <<players, money, cashout, wager, second_wager, stand, hand,
            second_hand, dealer_hand, game_deck, pc, cur, lap, stacked, round,
            money0, paid, splits, doubled, dealer_turns>>

vars == <<engine, heard>>

\* The Player objects made by instantiate_players.
PlayerIds == DOMAIN money

Roster == {players[i] : i \in 1..Len(players)}

\* An answer to a prompt: the position of play_game that asked, and the
\* amount (for int(input())) or the token (for input().upper()).
Amount(n) == [prompt |-> pc, amount |-> n, token |-> ""]
Token(t) == [prompt |-> pc, amount |-> 0, token |-> t]

\* play_game up to `while players:` at a table of `seats` seats.
InitWith(seats) ==
    /\ \E player_count \in 0..seats :
          players = [i \in 1..player_count |-> i]
    /\ money = [p \in 1..seats |-> StartMoney]
    /\ cashout = [p \in 1..seats |-> FALSE]
    /\ wager = [p \in 1..seats |-> 0]
    /\ second_wager = [p \in 1..seats |-> 0]
    /\ stand = [p \in 1..seats |-> FALSE]
    /\ hand = [p \in 1..seats |-> Hand]
    /\ second_hand = [p \in 1..seats |-> None]
    /\ dealer_hand = Hand
    /\ game_deck = {}
    /\ pc = "round"
    /\ cur = 1
    /\ lap = 0
    /\ stacked = <<>>
    /\ round = 0
    /\ money0 = [p \in 1..seats |-> StartMoney]
    /\ paid = [p \in 1..seats |-> <<0, 0>>]
    /\ splits = [p \in 1..seats |-> 0]
    /\ doubled = [p \in 1..seats |-> <<None, None>>]
    /\ dealer_turns = 0
    /\ heard = [prompt |-> "", amount |-> 0, token |-> ""]

Init == InitWith(MaxPlayers)

\* ------------------------------------------------------- start of a round
\* play_game, `while players:` with a roster: reset_for_new_round and Deck(),
\* where Deck() makes the cards `fresh` and shuffles them into one of `orders`.
StartRoundWith(fresh, orders) ==
    /\ pc = "round"
    /\ players # <<>>
    /\ round < MaxRounds
    /\ wager' = [p \in PlayerIds |-> IF p \in Roster THEN 0 ELSE wager[p]]
    /\ second_wager' = [p \in PlayerIds |->
                          IF p \in Roster THEN 0 ELSE second_wager[p]]
    /\ stand' = [p \in PlayerIds |-> IF p \in Roster THEN FALSE ELSE stand[p]]
    /\ hand' = [p \in PlayerIds |-> IF p \in Roster THEN Hand ELSE hand[p]]
    /\ second_hand' = [p \in PlayerIds |->
                         IF p \in Roster THEN None ELSE second_hand[p]]
    /\ dealer_hand' = Hand
    /\ game_deck' = fresh
    /\ \E order \in orders : stacked' = order
    /\ pc' = "bet"
    /\ cur' = 1
    /\ round' = round + 1
    /\ money0' = money
    /\ paid' = [p \in PlayerIds |-> <<0, 0>>]
    /\ splits' = [p \in PlayerIds |-> 0]
    /\ doubled' = [p \in PlayerIds |-> <<None, None>>]
    /\ dealer_turns' = 0
    /\ UNCHANGED <<players, money, cashout, lap, heard>>

StartRound == StartRoundWith(Deck, {<<>>})

\* play_game, `while players:` with an empty roster.
GameOver ==
    /\ pc = "round"
    /\ players = <<>>
    /\ pc' = "over"
    /\ UNCHANGED <<players, money, cashout, wager, second_wager, stand, hand,
                   second_hand, dealer_hand, game_deck, cur, lap, stacked,
                   round, money0, paid, splits, doubled, dealer_turns, heard>>

\* Player.make_bet: one answer to the prompt of players[cur].
make_bet(input) ==
    /\ pc = "bet"
    /\ heard' = Amount(input)
    /\ LET p == players[cur] IN
       IF ~validate_wager(input, money[p])
       THEN UNCHANGED engine
       ELSE /\ wager' = [wager EXCEPT ![p] = input]
            /\ money' = [money EXCEPT ![p] = @ - input]
            /\ IF cur < Len(players)
               THEN cur' = cur + 1 /\ pc' = "bet" /\ lap' = lap
               ELSE cur' = 1 /\ pc' = "deal" /\ lap' = 0
            /\ UNCHANGED <<players, cashout, second_wager, stand, hand,
                           second_hand, dealer_hand, game_deck, stacked, round,
                           money0, paid, splits, doubled, dealer_turns>>

\* deal_hands: one `add_card(deck.deal())` of the two nested loops; cur runs
\* over the players and then the dealer (Len(players) + 1).
deal_hands ==
    /\ pc = "deal"
    /\ IF game_deck = {}
       THEN /\ pc' = "crashed"
            /\ UNCHANGED <<hand, dealer_hand, game_deck, stacked, cur, lap>>
       ELSE \E card \in Dealable(game_deck, stacked) :
            /\ game_deck' = game_deck \ {card}
            /\ stacked' = Rest(stacked)
            /\ IF cur <= Len(players)
               THEN /\ hand' = [hand EXCEPT ![players[cur]] = add_card(@, card)]
                    /\ dealer_hand' = dealer_hand
                    /\ cur' = cur + 1
                    /\ lap' = lap
                    /\ pc' = "deal"
               ELSE /\ dealer_hand' = add_card(dealer_hand, card)
                    /\ hand' = hand
                    /\ cur' = 1
                    /\ lap' = lap + 1
                    /\ pc' = IF lap = 0 THEN "deal" ELSE "reveal"
    /\ UNCHANGED <<players, money, cashout, wager, second_wager, stand,
                   second_hand, round, money0, paid, splits, doubled,
                   dealer_turns, heard>>

\* ------------------------------------------------- naturals and the peek
\* The variables that no step between the deal and the roster update
\* changes, for the UNCHANGED of the steps below.
table == <<players, cashout, round, money0, lap>>

\* Where the for-loop over the players goes after players[cur].
NextPc == IF cur < Len(players) THEN "turn" ELSE "settle"
NextCur == IF cur < Len(players) THEN cur + 1 ELSE 1

\* play_game: `for player in players: player.reveal_initial_hand()`.
reveal_initial_hand ==
    /\ pc = "reveal"
    /\ hand' = [p \in PlayerIds |->
                  IF p \in Roster THEN check_blackjack(hand[p]) ELSE hand[p]]
    /\ pc' = "peek"
    /\ UNCHANGED <<table, money, wager, second_wager, stand, second_hand,
                   dealer_hand, game_deck, stacked, cur, paid, splits,
                   doubled, dealer_turns, heard>>

\* Dealer.reveal_faceup
reveal_faceup(h) == h.cards[Len(h.cards)]

\* A faulty variant of MustPeek: an Ace face up does not make the dealer check.
MustPeekTenOnly(faceup) == faceup.points = 10

\* play_game: the condition under which the dealer checks for a natural.
MustPeek(faceup) == faceup.points = 10 \/ IsAce(faceup)

\* What payout_natural_blackjacks adds to the money of player p.
NaturalWinnings(p) ==
    IF hand[p].blackjack THEN wager[p] + IntOneAndHalf(wager[p]) ELSE 0

\* What handle_dealer_blackjack adds to the money of player p.
DealerBlackjackReturn(p) == IF hand[p].blackjack THEN wager[p] ELSE 0

\* play_game from dealer.reveal_faceup() to the first player's turn, with
\* handle_dealer_blackjack and payout_natural_blackjacks.
dealer_peek ==
    /\ pc = "peek"
    /\ LET faceup == reveal_faceup(dealer_hand)
           checked == IF MustPeek(faceup)
                      THEN check_blackjack(dealer_hand)
                      ELSE dealer_hand
           credit == [p \in PlayerIds |->
                        IF p \notin Roster THEN 0
                        ELSE IF checked.blackjack
                             THEN DealerBlackjackReturn(p)
                             ELSE NaturalWinnings(p)]
       IN /\ dealer_hand' = checked
          /\ money' = [p \in PlayerIds |-> money[p] + credit[p]]
          /\ paid' = [p \in PlayerIds |->
                        <<paid[p][1] + credit[p], paid[p][2]>>]
          /\ stand' = [p \in PlayerIds |->
                         IF p \in Roster /\ checked.blackjack
                            /\ ~hand[p].blackjack
                         THEN TRUE ELSE stand[p]]
    /\ pc' = "turn"
    /\ cur' = 1
    /\ UNCHANGED <<table, wager, second_wager, hand, second_hand, game_deck,
                   stacked, splits, doubled, dealer_turns, heard>>

\* ------------------------------------------------------- the players' turns
\* A faulty variant of player_turn: the stand flag is not looked at.
player_turn_unresolved ==
    /\ pc = "turn"
    /\ LET p == players[cur] IN
       IF hand[p].blackjack = FALSE
       THEN pc' = "first" /\ cur' = cur
       ELSE pc' = NextPc /\ cur' = NextCur
    /\ UNCHANGED <<table, money, wager, second_wager, stand, hand,
                   second_hand, dealer_hand, game_deck, stacked, paid, splits,
                   doubled, dealer_turns, heard>>

\* play_game, the head of `for player in players:` at the decisions.
player_turn ==
    /\ pc = "turn"
    /\ LET p == players[cur] IN
       IF hand[p].blackjack = FALSE /\ stand[p] = FALSE
       THEN pc' = "first" /\ cur' = cur
       ELSE pc' = NextPc /\ cur' = NextCur
    /\ UNCHANGED <<table, money, wager, second_wager, stand, hand,
                   second_hand, dealer_hand, game_deck, stacked, paid, splits,
                   doubled, dealer_turns, heard>>

\* A faulty variant of SplitOffered: an earlier split is not looked at.
SplitOfferedAgain(p) ==
    /\ Len(hand[p].cards) = 2
    /\ NameHead(hand[p].cards[1]) = NameHead(hand[p].cards[2])
    /\ money[p] >= wager[p]

\* play_game: the condition under which s[P]lit is among the choices.
SplitOffered(p) ==
    /\ Len(hand[p].cards) = 2
    /\ NameHead(hand[p].cards[1]) = NameHead(hand[p].cards[2])
    /\ second_hand[p] = None
    /\ money[p] >= wager[p]

\* A faulty variant of SplitPrimary: the split card stays in the primary hand.
SplitPrimaryKeeps(h) == h

\* Player.split_hand up to the first deck.deal(): the primary hand without
\* its last card, and the new second hand holding that card.
SplitPrimary(h) ==
    LET split_card == h.cards[Len(h.cards)]
    IN [h EXCEPT !.cards = SubSeq(@, 1, Len(@) - 1),
                 !.value = @ - split_card.points]

SplitSecond(h) ==
    LET popped == h.cards[Len(h.cards)]
        split_card == IF IsAce(popped)
                      THEN [popped EXCEPT !.points = 11]
                      ELSE popped
    IN add_card(Hand, split_card)

\* Player.split_hand for players[cur]; with fewer than two cards left in the
\* deck, deck.deal() raises and the program ends where it stands.
split_hand(p) ==
    LET h1 == SplitPrimary(hand[p])
        h2 == SplitSecond(hand[p])
    IN /\ splits' = [splits EXCEPT ![p] = @ + 1]
       /\ IF game_deck = {}
          THEN /\ hand' = [hand EXCEPT ![p] = h1]
               /\ second_hand' = [second_hand EXCEPT ![p] = Some(h2)]
               /\ pc' = "crashed"
               /\ UNCHANGED <<game_deck, stacked, second_wager, money, stand>>
          ELSE \E c1 \in Dealable(game_deck, stacked) :
               /\ hand' = [hand EXCEPT ![p] = add_card(h1, c1)]
               /\ IF game_deck = {c1}
                  THEN /\ second_hand' = [second_hand EXCEPT ![p] = Some(h2)]
                       /\ game_deck' = {}
                       /\ stacked' = Rest(stacked)
                       /\ pc' = "crashed"
                       /\ UNCHANGED <<second_wager, money, stand>>
                  ELSE \E c2 \in Dealable(game_deck \ {c1}, Rest(stacked)) :
                       /\ second_hand' =
                            [second_hand EXCEPT ![p] = Some(add_card(h2, c2))]
                       /\ game_deck' = game_deck \ {c1, c2}
                       /\ stacked' = Rest(Rest(stacked))
                       /\ second_wager' = [second_wager EXCEPT ![p] = wager[p]]
                       /\ money' = [money EXCEPT ![p] = @ - wager[p]]
                       /\ IF IsAce(h1.cards[1]) /\ IsAce(h2.cards[1])
                          THEN /\ stand' = [stand EXCEPT ![p] = TRUE]
                               /\ pc' = "afterfirst"
                          ELSE /\ stand' = stand
                               /\ pc' = "first"

\* play_game: one answer to the decision prompt for the primary hand.
first_hand_choice(choice) ==
    /\ pc = "first"
    /\ heard' = Token(choice)
    /\ LET p == players[cur] IN
       /\ hand[p].value < LIMIT
       /\ CASE SplitOffered(p) /\ choice = "P" ->
                 /\ split_hand(p)
                 /\ UNCHANGED <<table, wager, dealer_hand, cur, paid, doubled,
                                dealer_turns>>
            [] choice = "H" ->
                 /\ IF game_deck = {}
                    THEN pc' = "crashed" /\ UNCHANGED <<hand, game_deck, stacked>>
                    ELSE \E card \in Dealable(game_deck, stacked) :
                         /\ hand' = [hand EXCEPT ![p] = draw_card(@, card)]
                         /\ game_deck' = game_deck \ {card}
                         /\ stacked' = Rest(stacked)
                         /\ pc' = "first"
                 /\ UNCHANGED <<table, money, wager, second_wager, stand,
                                second_hand, dealer_hand, cur, paid, splits,
                                doubled, dealer_turns>>
            [] choice = "S" ->
                 /\ stand' = [stand EXCEPT ![p] = TRUE]
                 /\ pc' = "afterfirst"
                 /\ UNCHANGED <<table, money, wager, second_wager, hand,
                                second_hand, dealer_hand, game_deck, stacked,
                                cur, paid, splits, doubled, dealer_turns>>
            [] choice = "D" ->
                 /\ pc' = "dd1"
                 /\ UNCHANGED <<table, money, wager, second_wager, stand, hand,
                                second_hand, dealer_hand, game_deck, stacked,
                                cur, paid, splits, doubled, dealer_turns>>
            [] OTHER -> UNCHANGED engine

\* max_wager of the double-down on the primary hand of players[cur].
FirstMaximum ==
    IF pc = "dd1" THEN max_wager(wager[players[cur]], money[players[cur]]) ELSE 0

\* What the history keeps of a double-down: the hand's wager before it and
\* the number of cards of the hand after it.
Doubled(w, h) == Some([wager |-> w, size |-> Len(h.cards)])

\* double_down(player, player.hand, game_deck, player.wager): one answer to
\* its prompt, and `player.wager = wager; break` on return.
double_down_first(additional) ==
    /\ pc = "dd1"
    /\ heard' = Amount(additional)
    /\ LET p == players[cur] IN
       IF ~validate_wager(additional, max_wager(wager[p], money[p]))
       THEN UNCHANGED engine
       ELSE /\ money' = [money EXCEPT ![p] = @ - additional]
            /\ IF game_deck = {}
               THEN /\ pc' = "crashed"
                    /\ UNCHANGED <<hand, game_deck, stacked, stand, wager,
                                   doubled>>
               ELSE \E card \in Dealable(game_deck, stacked) :
                    /\ hand' = [hand EXCEPT ![p] = draw_card(@, card)]
                    /\ game_deck' = game_deck \ {card}
                    /\ stacked' = Rest(stacked)
                    /\ stand' = [stand EXCEPT ![p] = TRUE]
                    /\ wager' = [wager EXCEPT ![p] = @ + additional]
                    /\ doubled' = [doubled EXCEPT
                                     ![p][1] = Doubled(wager[p], hand'[p])]
                    /\ pc' = "afterfirst"
            /\ UNCHANGED <<table, second_wager, second_hand, dealer_hand, cur,
                           paid, splits, dealer_turns>>

\* The stand flag after the primary hand's loop (`if value == LIMIT`,
\* `if value > LIMIT`).
StandAfterFirst(p) ==
    IF hand[p].value = LIMIT THEN TRUE
    ELSE IF hand[p].value > LIMIT THEN FALSE
    ELSE stand[p]

\* `if player.second_hand:` - a Hand is a list, true when it is not empty.
HasSecond(p) == second_hand[p] # None /\ second_hand[p][1].cards # <<>>

\* A faulty variant of PlaysSecond: a second hand that starts with an Ace
\* gets a decision loop too.
PlaysSecondAlways(p) == HasSecond(p)

\* play_game: whether the second hand gets a decision loop.
PlaysSecond(p) ==
    /\ HasSecond(p)
    /\ ~IsAce(second_hand[p][1].cards[1])

\* play_game after the primary hand's loop, by its condition or by a break.
after_first_hand ==
    /\ \/ pc = "afterfirst"
       \/ pc = "first" /\ hand[players[cur]].value >= LIMIT
    /\ LET p == players[cur] IN
       /\ stand' = [stand EXCEPT ![p] = StandAfterFirst(p)]
       /\ IF PlaysSecond(p)
          THEN pc' = "second" /\ cur' = cur
          ELSE pc' = NextPc /\ cur' = NextCur
    /\ UNCHANGED <<table, money, wager, second_wager, hand, second_hand,
                   dealer_hand, game_deck, stacked, paid, splits, doubled,
                   dealer_turns, heard>>

\* play_game: one answer to the decision prompt for the second hand.
second_hand_choice(choice) ==
    /\ pc = "second"
    /\ heard' = Token(choice)
    /\ LET p == players[cur] IN
       /\ second_hand[p][1].value < LIMIT
       /\ CASE choice = "H" ->
                 /\ IF game_deck = {}
                    THEN /\ pc' = "crashed"
                         /\ UNCHANGED <<second_hand, game_deck, stacked>>
                    ELSE \E card \in Dealable(game_deck, stacked) :
                         /\ second_hand' = [second_hand EXCEPT
                                              ![p] = Some(draw_card(@[1], card))]
                         /\ game_deck' = game_deck \ {card}
                         /\ stacked' = Rest(stacked)
                         /\ pc' = "second"
                 /\ UNCHANGED <<table, money, wager, second_wager, stand, hand,
                                dealer_hand, cur, paid, splits, doubled,
                                dealer_turns>>
            [] choice = "S" ->
                 /\ stand' = [stand EXCEPT ![p] = TRUE]
                 /\ pc' = "aftersecond"
                 /\ UNCHANGED <<table, money, wager, second_wager, hand,
                                second_hand, dealer_hand, game_deck, stacked,
                                cur, paid, splits, doubled, dealer_turns>>
            [] choice = "D" ->
                 /\ pc' = "dd2"
                 /\ UNCHANGED <<table, money, wager, second_wager, stand, hand,
                                second_hand, dealer_hand, game_deck, stacked,
                                cur, paid, splits, doubled, dealer_turns>>
            [] OTHER -> UNCHANGED engine

\* max_wager of the double-down on the second hand of players[cur].
SecondMaximum ==
    IF pc = "dd2"
    THEN max_wager(second_wager[players[cur]], money[players[cur]]) ELSE 0

\* double_down(player, player.second_hand, game_deck, player.second_wager).
double_down_second(additional) ==
    /\ pc = "dd2"
    /\ heard' = Amount(additional)
    /\ LET p == players[cur] IN
       IF ~validate_wager(additional, max_wager(second_wager[p], money[p]))
       THEN UNCHANGED engine
       ELSE /\ money' = [money EXCEPT ![p] = @ - additional]
            /\ IF game_deck = {}
               THEN /\ pc' = "crashed"
                    /\ UNCHANGED <<second_hand, game_deck, stacked, stand,
                                   second_wager, doubled>>
               ELSE \E card \in Dealable(game_deck, stacked) :
                    /\ second_hand' = [second_hand EXCEPT
                                         ![p] = Some(draw_card(@[1], card))]
                    /\ game_deck' = game_deck \ {card}
                    /\ stacked' = Rest(stacked)
                    /\ stand' = [stand EXCEPT ![p] = TRUE]
                    /\ second_wager' = [second_wager EXCEPT ![p] = @ + additional]
                    /\ doubled' =
                         [doubled EXCEPT
                            ![p][2] = Doubled(second_wager[p], second_hand'[p][1])]
                    /\ pc' = "aftersecond"
            /\ UNCHANGED <<table, wager, hand, dealer_hand, cur, paid, splits,
                           dealer_turns>>

\* The stand flag after the second hand's loop.
StandAfterSecond(p) ==
    IF second_hand[p][1].value = LIMIT THEN TRUE
    ELSE IF second_hand[p][1].value > LIMIT
         THEN (IF ~(stand[p] = TRUE) THEN FALSE ELSE stand[p])
         ELSE stand[p]

\* play_game after the second hand's loop, by its condition or by a break.
after_second_hand ==
    /\ \/ pc = "aftersecond"
       \/ pc = "second" /\ second_hand[players[cur]][1].value >= LIMIT
    /\ LET p == players[cur] IN
       stand' = [stand EXCEPT ![p] = StandAfterSecond(p)]
    /\ pc' = NextPc
    /\ cur' = NextCur
    /\ UNCHANGED <<table, money, wager, second_wager, hand, second_hand,
                   dealer_hand, game_deck, stacked, paid, splits, doubled,
                   dealer_turns, heard>>

\* A faulty variant of DealerPlays: only the first player of the roster is
\* looked at.
DealerPlaysForFirst ==
    players # <<>> /\ stand[players[1]] /\ ~dealer_hand.blackjack

\* ------------------------------------------------ dealer turn, settlement
\* A faulty variant of DealerPlays: the dealer's natural is not looked at.
DealerPlaysDespiteNatural == \E p \in Roster : stand[p]

\* play_game: `for player in players: if player.stand and not
\* dealer.hand.blackjack: resolve_dealer_hand(...); break`.
DealerPlays ==
    \E p \in Roster : stand[p] /\ ~dealer_hand.blackjack

dealer_gate ==
    /\ pc = "settle"
    /\ pc' = IF DealerPlays THEN "dealer" ELSE "cleanup"
    /\ dealer_turns' = IF DealerPlays THEN dealer_turns + 1 ELSE dealer_turns
    /\ UNCHANGED <<table, money, wager, second_wager, stand, hand,
                   second_hand, dealer_hand, game_deck, stacked, cur, paid,
                   splits, doubled, heard>>

\* A faulty variant of DealerHits: the dealer also hits a soft 17.
DealerHitsSoft17(h) ==
    \/ h.value < 17
    \/ h.value = 17 /\ \E i \in 1..Len(h.cards) :
                          IsAce(h.cards[i]) /\ h.cards[i].points = 11

\* resolve_dealer_hand: the condition of `while dealer.hand.value < 17`.
DealerHits(h) == h.value < 17

\* resolve_dealer_hand: one turn of the while loop.
dealer_draw ==
    /\ pc = "dealer"
    /\ DealerHits(dealer_hand)
    /\ IF game_deck = {}
       THEN pc' = "crashed" /\ UNCHANGED <<dealer_hand, game_deck, stacked>>
       ELSE \E card \in Dealable(game_deck, stacked) :
            /\ dealer_hand' = draw_card(dealer_hand, card)
            /\ game_deck' = game_deck \ {card}
            /\ stacked' = Rest(stacked)
            /\ pc' = "dealer"
    /\ UNCHANGED <<table, money, wager, second_wager, stand, hand,
                   second_hand, cur, paid, splits, doubled, dealer_turns,
                   heard>>

\* payout_hand: what a winning hand adds to the player's money.
payout_hand(player_wager) == 2 * player_wager

\* A faulty variant of BustPayout: a bust hand is paid too.
BustPayoutAnyValue(h, player_wager) == payout_hand(player_wager)

\* payout_after_dealer_bust: what one hand of a standing player is paid.
BustPayout(h, player_wager) ==
    IF h.value <= LIMIT THEN payout_hand(player_wager) ELSE 0

\* compare_hand: what it adds to the player's money.
compare_hand(player_hand, dealer, player_wager) ==
    IF dealer.value > player_hand.value THEN 0
    ELSE IF dealer.value = player_hand.value THEN player_wager
    ELSE payout_hand(player_wager)

\* compare_multiple_hands: what one hand of a standing player is paid.
ComparePayout(h, player_wager) ==
    IF h.value <= LIMIT THEN compare_hand(h, dealer_hand, player_wager) ELSE 0

\* What resolve_dealer_hand pays to the two hands of player p, by
\* payout_after_dealer_bust or compare_multiple_hands.
Settlement(p) ==
    IF ~stand[p] THEN <<0, 0>>
    ELSE IF dealer_hand.value > LIMIT
    THEN << BustPayout(hand[p], wager[p]),
            IF HasSecond(p)
            THEN BustPayout(second_hand[p][1], second_wager[p]) ELSE 0 >>
    ELSE << ComparePayout(hand[p], wager[p]),
            IF HasSecond(p)
            THEN ComparePayout(second_hand[p][1], second_wager[p]) ELSE 0 >>

\* resolve_dealer_hand after its while loop.
dealer_settle ==
    /\ pc = "dealer"
    /\ ~DealerHits(dealer_hand)
    /\ LET credit == [p \in PlayerIds |->
                        IF p \in Roster THEN Settlement(p) ELSE <<0, 0>>]
       IN /\ money' = [p \in PlayerIds |->
                         money[p] + credit[p][1] + credit[p][2]]
          /\ paid' = [p \in PlayerIds |->
                        <<paid[p][1] + credit[p][1], paid[p][2] + credit[p][2]>>]
    /\ pc' = "cleanup"
    /\ UNCHANGED <<table, wager, second_wager, stand, hand, second_hand,
                   dealer_hand, game_deck, stacked, cur, splits, doubled,
                   dealer_turns, heard>>

\* ------------------------------------------------------- end of the round
\* remove_bankrupt_players: who stays.
Solvent(p) == ~(money[p] = 0)

remove_bankrupt_players ==
    /\ pc = "cleanup"
    /\ players' = SelectSeq(players, Solvent)
    /\ pc' = IF players' = <<>> THEN "round" ELSE "ask"
    /\ cur' = 1
    /\ UNCHANGED <<money, cashout, wager, second_wager, stand, hand,
                   second_hand, dealer_hand, game_deck, lap, stacked, round,
                   money0, paid, splits, doubled, dealer_turns, heard>>

\* ask_to_continue: one answer to the prompt of players[cur]; after the
\* last player's answer, the players who cash out leave the roster.
ask_to_continue(again) ==
    /\ pc = "ask"
    /\ heard' = Token(again)
    /\ IF again \notin {"Y", "N"}
       THEN UNCHANGED engine
       ELSE /\ cashout' = IF again = "N"
                          THEN [cashout EXCEPT ![players[cur]] = TRUE]
                          ELSE cashout
            /\ IF cur < Len(players)
               THEN /\ cur' = cur + 1
                    /\ pc' = "ask"
                    /\ players' = players
               ELSE /\ cur' = 1
                    /\ pc' = "round"
                    /\ players' = SelectSeq(players, LAMBDA p : ~cashout'[p])
            /\ UNCHANGED <<money, wager, second_wager, stand, hand,
                           second_hand, dealer_hand, game_deck, lap, stacked,
                           round, money0, paid, splits, doubled, dealer_turns>>

Next ==
    \/ StartRound
    \/ GameOver
    \/ \E input \in BetInputs : make_bet(input)
    \/ deal_hands
    \/ reveal_initial_hand
    \/ dealer_peek
    \/ player_turn
    \/ \E choice \in ChoiceInputs : first_hand_choice(choice)
    \/ \E additional \in AdditionalInputs(FirstMaximum) :
          double_down_first(additional)
    \/ after_first_hand
    \/ \E choice \in ChoiceInputs : second_hand_choice(choice)
    \/ \E additional \in AdditionalInputs(SecondMaximum) :
          double_down_second(additional)
    \/ after_second_hand
    \/ dealer_gate
    \/ dealer_draw
    \/ dealer_settle
    \/ remove_bankrupt_players
    \/ \E again \in AgainInputs : ask_to_continue(again)

Spec == Init /\ [][Next]_vars

\* ================================================================ claims
\* The sum of the current points of a sequence of cards.
RECURSIVE SumPoints(_)
SumPoints(cards) ==
    IF cards = <<>> THEN 0
    ELSE cards[1].points + SumPoints(Tail(cards))

AllHands ==
    {dealer_hand} \cup {hand[p] : p \in PlayerIds}
                  \cup {second_hand[p][1] : p \in {q \in PlayerIds : second_hand[q] # None}}

\* The positions of play_game between the dealer's check and the roster update.
InPlay == {"turn", "first", "dd1", "afterfirst", "second", "dd2",
           "aftersecond", "settle", "dealer", "cleanup"}

\* A two-card hand worth 21, counted from its cards.
IsNatural(h) == Len(h.cards) = 2 /\ SumPoints(h.cards) = LIMIT

\* C1: in every reachable state the cached value of every hand (primary,
\* second, dealer's) is the sum of the current points of its cards.
C1_ValueIsSumOfPoints ==
    \A h \in AllHands : h.value = SumPoints(h.cards)

\* C1 witness: a player has split, and a hand holds an Ace that was added at
\* 11 and later demoted to 1 by reset_ace_value, with the value still the sum.
C1_Witness ==
    /\ pc # "crashed"
    /\ \E p \in PlayerIds : splits[p] = 1
    /\ \E h \in AllHands : \E i \in 1..Len(h.cards) :
          /\ IsAce(h.cards[i]) /\ h.cards[i].points = 1
          /\ SumPoints(SubSeq(h.cards, 1, i - 1)) <= 10
          /\ Len(h.cards) >= 3
          /\ h.value = SumPoints(h.cards)

\* floor(1.5 * wager)
FloorOneAndHalf(w) == (3 * w) \div 2

\* The net result the settlement rules give a hand h with final wager w.
Outcome(h, w, natural) ==
    IF natural
    THEN (IF IsNatural(dealer_hand) THEN 0 ELSE FloorOneAndHalf(w))
    ELSE IF SumPoints(h.cards) > LIMIT THEN -w
    ELSE IF IsNatural(dealer_hand) THEN -w
    ELSE IF SumPoints(dealer_hand.cards) > LIMIT THEN w
    ELSE IF SumPoints(h.cards) > SumPoints(dealer_hand.cards) THEN w
    ELSE IF SumPoints(h.cards) = SumPoints(dealer_hand.cards) THEN 0
    ELSE -w

RoundResult(p) ==
    IF second_hand[p] = None
    THEN Outcome(hand[p], wager[p], IsNatural(hand[p]))
    ELSE Outcome(hand[p], wager[p], FALSE)
         + Outcome(second_hand[p][1], second_wager[p], FALSE)

\* C2: when all payouts of a round are made, every player's bankroll differs
\* from the bankroll before betting by the sum of the results of the player's
\* hands: +wager for a win, +floor(1.5 * wager) for a natural against a dealer
\* without one, 0 for a push, -wager for a loss or a bust.
C2_ChipsConserved ==
    pc = "cleanup" =>
        \A p \in Roster : money[p] - money0[p] = RoundResult(p)

\* C3: with a natural blackjack in the dealer's two-card hand, after the
\* dealer's check no decision and no dealer turn takes place, a player with a
\* natural has been credited exactly the wager and every other player
\* nothing, and until the next round no card leaves the deck or enters a hand.
C3_AfterDealerNatural ==
    (pc \in InPlay /\ IsNatural(dealer_hand)) =>
        /\ pc \in {"turn", "settle", "cleanup"}
        /\ \A p \in Roster :
              /\ paid[p] = <<IF IsNatural(hand[p]) THEN wager[p] ELSE 0, 0>>
              /\ money[p] = money0[p] - wager[p] + paid[p][1]

C3_NoCardDealt ==
    (pc \in InPlay /\ IsNatural(dealer_hand)) =>
        /\ game_deck' = game_deck
        /\ hand' = hand
        /\ second_hand' = second_hand
        /\ dealer_hand' = dealer_hand

C3_DealerNaturalEndsRound ==
    [](C3_AfterDealerNatural) /\ [][C3_NoCardDealt]_vars

\* C3 witness: the payouts of a round are done, the dealer holds a natural,
\* one player holds a natural and has the wager back, another does not and
\* has nothing back.
C3_Witness ==
    /\ pc = "cleanup"
    /\ IsNatural(dealer_hand)
    /\ \E p, q \in Roster :
          /\ IsNatural(hand[p]) /\ wager[p] # 0 /\ money[p] = money0[p]
          /\ ~IsNatural(hand[q]) /\ wager[q] # 0
          /\ money[q] = money0[q] - wager[q]

\* C4: no amount is ever credited for a hand whose value exceeds 21, for
\* each of the two hands of a player separately.
C4_BustNeverPaid ==
    \A p \in PlayerIds :
        /\ hand[p].value > LIMIT => paid[p][1] = 0
        /\ (second_hand[p] # None /\ second_hand[p][1].value > LIMIT)
              => paid[p][2] = 0

\* C4 witness: the dealer is bust and the payouts are done for a standing
\* player who split, one of whose hands is bust and unpaid while the other
\* hand has been paid.
C4_Witness ==
    /\ pc = "cleanup"
    /\ dealer_hand.value > LIMIT
    /\ \E p \in Roster :
          /\ second_hand[p] # None
          /\ stand[p]
          /\ \/ hand[p].value > LIMIT /\ paid[p][1] = 0 /\ paid[p][2] > 0
             \/ second_hand[p][1].value > LIMIT /\ paid[p][2] = 0 /\ paid[p][1] > 0

\* Player p has split a pair of Aces and split_hand has returned.
HasSplitAces(p) ==
    /\ pc # "crashed"
    /\ splits[p] = 1
    /\ IsAce(hand[p].cards[1])
    /\ IsAce(second_hand[p][1].cards[1])

\* C5: split_hand runs only on a two-card hand of one rank, of a player who
\* has not split in this round and whose bankroll covers the wager; a player
\* splits at most once per round; when split_hand returns both hands hold two
\* cards, the second wager equals the unchanged first wager, and the bankroll
\* is lower by exactly that wager.
C5_SplitStep ==
    \A p \in PlayerIds :
        splits'[p] > splits[p] =>
            /\ Len(hand[p].cards) = 2
            /\ hand[p].cards[1].rank = hand[p].cards[2].rank
            /\ second_hand[p] = None
            /\ splits[p] = 0
            /\ money[p] >= wager[p]
            /\ pc' # "crashed" =>
                  /\ Len(hand'[p].cards) = 2
                  /\ second_hand'[p] # None
                  /\ Len(second_hand'[p][1].cards) = 2
                  /\ wager'[p] = wager[p]
                  /\ second_wager'[p] = wager[p]
                  /\ money'[p] = money[p] - wager[p]

C5_SplitOnlyWhenOffered ==
    [](\A p \in PlayerIds : splits[p] <= 1) /\ [][C5_SplitStep]_vars

\* C5 witness: a player who bet a positive amount has split and holds two
\* two-card hands with equal wagers, paid out of the bankroll.
C5_Witness ==
    /\ pc = "first"
    /\ \E p \in Roster :
          /\ splits[p] = 1
          /\ wager[p] > 0
          /\ Len(hand[p].cards) = 2
          /\ Len(second_hand[p][1].cards) = 2
          /\ second_wager[p] = wager[p]
          /\ money[p] = money0[p] - 2 * wager[p]

\* C6: from the moment a player has split a pair of Aces the player is
\* marked standing and both hands keep exactly two cards, up to and through
\* the dealer's turn and the settlement.
C6_SplitAcesStand ==
    \A p \in PlayerIds :
        HasSplitAces(p) =>
            /\ stand[p]
            /\ Len(hand[p].cards) = 2
            /\ Len(second_hand[p][1].cards) = 2
            /\ pc \notin {"first", "dd1", "second", "dd2"} \/ players[cur] # p

\* C6 witness: a player split Aces, the dealer drew, and the round is settled.
C6_Witness ==
    /\ pc = "cleanup"
    /\ Len(dealer_hand.cards) >= 3
    /\ \E p \in Roster : HasSplitAces(p) /\ stand[p]

\* What the settlement owes hand h with wager w of a standing player.
Owed(h, w) ==
    IF h.value > LIMIT THEN 0
    ELSE IF dealer_hand.value > LIMIT THEN 2 * w
    ELSE IF dealer_hand.value > h.value THEN 0
    ELSE IF dealer_hand.value = h.value THEN w
    ELSE 2 * w

\* C7: in the dealer's turn, below 17 the dealer draws a card (or the deck
\* is empty), at 17 or more, a soft 17 included, the dealer draws nothing and
\* the hands are settled against that final value, which is at least 17.
C7_DealerStep ==
    pc = "dealer" =>
        IF dealer_hand.value < 17
        THEN \/ pc' = "crashed"
             \/ /\ pc' = "dealer"
                /\ Len(dealer_hand'.cards) = Len(dealer_hand.cards) + 1
                /\ Cardinality(game_deck') = Cardinality(game_deck) - 1
                /\ money' = money
        ELSE /\ pc' = "cleanup"
             /\ dealer_hand' = dealer_hand
             /\ game_deck' = game_deck
             /\ \A p \in Roster :
                   paid'[p] =
                     IF ~stand[p] THEN paid[p]
                     ELSE << paid[p][1] + Owed(hand[p], wager[p]),
                             paid[p][2] + IF second_hand[p] = None THEN 0
                                          ELSE Owed(second_hand[p][1],
                                                    second_wager[p]) >>
             /\ \A p \in Roster :
                   money'[p] - money[p] =
                       (paid'[p][1] - paid[p][1]) + (paid'[p][2] - paid[p][2])

C7_DealerRule == [][C7_DealerStep]_vars

\* C7 witness: the round is settled after a dealer's turn in which the
\* dealer stood on an Ace counted 11 and a 6.
C7_Witness ==
    /\ pc = "cleanup"
    /\ \E p \in Roster : stand[p] /\ paid[p][1] > 0
    /\ dealer_hand.value = 17
    /\ Len(dealer_hand.cards) = 2
    /\ \E i \in 1..2 : IsAce(dealer_hand.cards[i]) /\ dealer_hand.cards[i].points = 11

\* C8: after the dealer's peek the dealer's blackjack flag is set exactly
\* when the two initial cards total 21, and then the face-up card has 10
\* points or is an Ace.
C8_PeekFindsNatural ==
    pc \in InPlay =>
        /\ dealer_hand.blackjack <=> IsNatural(dealer_hand)
        /\ IsNatural(dealer_hand) =>
              \/ dealer_hand.cards[2].points = 10
              \/ dealer_hand.cards[2].rank = "A"

\* C8 witness: after the peek the dealer holds a natural with the Ace face
\* up, and the flag is set.
C8_Witness ==
    /\ pc = "turn"
    /\ IsNatural(dealer_hand)
    /\ dealer_hand.cards[2].rank = "A"
    /\ dealer_hand.blackjack

\* C9: when a betting phase starts, every player of the roster has a
\* bankroll above 0 and has not cashed out.
C9_RosterSolvent ==
    pc \in {"round", "bet"} =>
        \A p \in Roster :
            /\ ~cashout[p]
            /\ (IF pc = "round" THEN money[p] ELSE money0[p]) > 0

\* C10: no bankroll is ever negative.
C10_BankrollNonNegative ==
    \A p \in PlayerIds : money[p] >= 0

\* A double-down on the hand that player p is deciding on has just been
\* accepted and carried out.
DoubleDone(p) ==
    /\ pc \in {"dd1", "dd2"}
    /\ players[cur] = p
    /\ pc' \notin {pc, "crashed"}

\* C11: an accepted double-down adds to the hand's wager an amount that is at
\* most the hand's wager before it and at most the bankroll at that moment,
\* takes exactly that amount from the bankroll, deals exactly one card from
\* the deck to that hand and ends the decisions for it; later no card joins
\* that hand and its wager stays at most twice the wager before the
\* double-down.
C11_DoubleStep ==
    \A p \in PlayerIds :
        DoubleDone(p) =>
            LET first == (pc = "dd1")
                before == IF first THEN wager[p] ELSE second_wager[p]
                after == IF first THEN wager'[p] ELSE second_wager'[p]
                cards == IF first THEN hand[p].cards
                         ELSE second_hand[p][1].cards
                cards_after == IF first THEN hand'[p].cards
                               ELSE second_hand'[p][1].cards
            IN /\ after - before <= before
               /\ after - before <= money[p]
               /\ money'[p] = money[p] - (after - before)
               /\ Len(cards_after) = Len(cards) + 1
               /\ \E card \in game_deck :
                     /\ game_deck' = game_deck \ {card}
                     /\ cards_after[Len(cards_after)].rank = card.rank
                     /\ cards_after[Len(cards_after)].suit = card.suit
               /\ IF first THEN second_hand' = second_hand /\ second_wager' = second_wager
                           ELSE hand' = hand /\ wager' = wager
               /\ dealer_hand' = dealer_hand
               /\ pc' = IF first THEN "afterfirst" ELSE "aftersecond"
               /\ doubled'[p][IF first THEN 1 ELSE 2] # None

C11_AfterDouble ==
    \A p \in PlayerIds :
        /\ doubled[p][1] # None =>
              /\ Len(hand[p].cards) = doubled[p][1][1].size
              /\ wager[p] <= 2 * doubled[p][1][1].wager
              /\ ~(pc \in {"first", "dd1"} /\ players[cur] = p)
        /\ doubled[p][2] # None =>
              /\ Len(second_hand[p][1].cards) = doubled[p][2][1].size
              /\ second_wager[p] <= 2 * doubled[p][2][1].wager
              /\ ~(pc \in {"second", "dd2"} /\ players[cur] = p)

C11_DoubleDown == [](C11_AfterDouble) /\ [][C11_DoubleStep]_vars

\* C11 witness: the round is settled after a dealer's draw; a player split,
\* doubled the wager 1 of the second hand to 2 for one more card, and that
\* hand still has its three cards.
C11_Witness ==
    /\ pc = "cleanup"
    /\ Len(dealer_hand.cards) >= 3
    /\ \E p \in Roster :
          /\ doubled[p][2] # None
          /\ doubled[p][2][1].wager = 1
          /\ second_wager[p] = 2
          /\ Len(second_hand[p][1].cards) = 3
          /\ money[p] - paid[p][1] - paid[p][2] = money0[p] - wager[p] - 2

\* ------------------------------------------------ a Hand on its own
\* A Hand and a Deck outside play_game, to check the methods of Hand on
\* every hand that they can build from the cards of a deck: `dealer_hand` is
\* the hand, `game_deck` the deck, and `lap` counts the reset_ace_value calls
\* made since a card was last added.
HandInit ==
    /\ players = <<>>
    /\ money = <<>>
    /\ cashout = <<>>
    /\ wager = <<>>
    /\ second_wager = <<>>
    /\ stand = <<>>
    /\ hand = <<>>
    /\ second_hand = <<>>
    /\ dealer_hand = Hand
    /\ game_deck = Deck
    /\ pc = "hand"
    /\ cur = 1
    /\ lap = 0
    /\ stacked = <<>>
    /\ round = 0
    /\ money0 = <<>>
    /\ paid = <<>>
    /\ splits = <<>>
    /\ doubled = <<>>
    /\ dealer_turns = 0
    /\ heard = [prompt |-> "", amount |-> 0, token |-> ""]

\* What the steps of a Hand on its own leave alone.
apart == <<players, money, cashout, wager, second_wager, stand, hand,
           second_hand, pc, cur, stacked, round, money0, paid, splits,
           doubled, dealer_turns, heard>>

\* hand.add_card(deck.deal()), as deal_hands and split_hand call it.
HandAdd ==
    /\ pc = "hand"
    /\ Len(dealer_hand.cards) < MaxCards
    /\ \E card \in Dealable(game_deck, stacked) :
          /\ dealer_hand' = add_card(dealer_hand, card)
          /\ game_deck' = game_deck \ {card}
    /\ lap' = 0
    /\ UNCHANGED apart

\* hand.draw_card(deck)
HandDraw ==
    /\ pc = "hand"
    /\ Len(dealer_hand.cards) < MaxCards
    /\ \E card \in Dealable(game_deck, stacked) :
          /\ dealer_hand' = draw_card(dealer_hand, card)
          /\ game_deck' = game_deck \ {card}
    /\ lap' = 1
    /\ UNCHANGED apart

\* hand.reset_ace_value()
HandReset ==
    /\ pc = "hand"
    /\ lap < MaxResets
    /\ dealer_hand' = reset_ace_value(dealer_hand)
    /\ lap' = lap + 1
    /\ UNCHANGED <<apart, game_deck>>

HandNext == HandAdd \/ HandDraw \/ HandReset

HandSpec == HandInit /\ [][HandNext]_vars

\* C13: reset_ace_value applied to a hand whose value is at most 21 changes
\* neither the value nor the points of any card, and applied to a hand to
\* which it was just applied it changes nothing either.
C13_ResetStep ==
    (pc = "hand" /\ lap' = lap + 1 /\ game_deck' = game_deck) =>
        /\ dealer_hand.value <= LIMIT => dealer_hand' = dealer_hand
        /\ lap >= 1 => dealer_hand' = dealer_hand

C13_ResetIdempotent == [][C13_ResetStep]_vars

\* C13 witness: reset_ace_value has been applied twice to a hand that was
\* above 21 with an Ace at 11 and is now at most 21 with that Ace at 1.
C13_Witness ==
    /\ pc = "hand"
    /\ lap = 2
    /\ dealer_hand.value <= LIMIT
    /\ dealer_hand.value + 10 > LIMIT
    /\ \E i \in 1..Len(dealer_hand.cards) :
          /\ IsAce(dealer_hand.cards[i]) /\ dealer_hand.cards[i].points = 1
          /\ SumPoints(SubSeq(dealer_hand.cards, 1, i - 1)) <= 10

\* C14: when the turns of all players are over, a player is marked standing
\* only if at least one of the player's hands has a value of at most 21.
C14_StandingHasLiveHand ==
    pc = "settle" =>
        \A p \in Roster :
            stand[p] =>
                \/ hand[p].value <= LIMIT
                \/ second_hand[p] # None /\ second_hand[p][1].value <= LIMIT

\* Revaluing the Aces of hand h one at a time: while the value is above 21
\* and an Ace counts 11, the first such Ace is set to 1 and the value lowered
\* by 10.
RECURSIVE DemoteInTurn(_)
DemoteInTurn(h) ==
    LET high == {i \in 1..Len(h.cards) :
                   IsAce(h.cards[i]) /\ h.cards[i].points = 11}
    IN IF h.value <= LIMIT \/ high = {} THEN h
       ELSE LET i == CHOOSE j \in high : \A k \in high : j <= k
            IN DemoteInTurn([h EXCEPT !.cards[i].points = 1,
                                      !.value = @ - 10])

\* C15: on every hand of a reachable state, and on every hand that draw_card
\* hands to reset_ace_value (a hand below 21 with one more card of the deck
\* added), reset_ace_value gives the value and the card points that
\* revaluing the Aces one at a time gives.
C15_ResetIsStepwise ==
    \A h \in AllHands :
        /\ reset_ace_value(h) = DemoteInTurn(h)
        /\ h.value < LIMIT =>
              \A card \in game_deck :
                  reset_ace_value(add_card(h, card)) =
                      DemoteInTurn(add_card(h, card))

\* C15 witness: a player has hit a hand that held an Ace at 11 and a
\* second card; the card drawn took it above 21, reset_ace_value has set
\* the Ace to 1, and the hand is now at most 21 but would not be with the
\* Ace at 11.
C15_Witness ==
    /\ pc = "first"
    /\ LET h == hand[players[cur]] IN
       /\ Len(h.cards) = 3
       /\ IsAce(h.cards[1])
       /\ h.cards[1].points = 1
       /\ ~IsAce(h.cards[2])
       /\ h.value <= LIMIT
       /\ h.value + 10 > LIMIT

\* The positions of play_game after the decisions of all players.
AfterDecisions == {"settle", "dealer", "cleanup", "ask", "round", "over",
                   "crashed"}

\* C16: the dealer's turn runs at most once per round and only after the
\* decisions of all players; at the gate it runs exactly when some player is
\* marked standing and the dealer's two cards are not a natural; when it
\* does not run, the gate changes no hand, no bankroll and no payout, the
\* dealer still holds two cards at the roster update, and amounts are
\* credited only at the dealer's check and in the dealer's turn.
C16_State ==
    /\ dealer_turns <= 1
    /\ dealer_turns = 1 => pc \in AfterDecisions
    /\ pc = "dealer" => dealer_turns = 1
    /\ (pc = "cleanup" /\ dealer_turns = 0) =>
          /\ Len(dealer_hand.cards) = 2
          /\ \/ IsNatural(dealer_hand)
             \/ \A p \in Roster : ~stand[p]

C16_Step ==
    /\ pc = "settle" =>
          /\ pc' = "dealer" <=>
                /\ \E p \in Roster : stand[p]
                /\ ~IsNatural(dealer_hand)
          /\ pc' # "dealer" =>
                /\ pc' = "cleanup"
                /\ dealer_turns' = 0
                /\ UNCHANGED <<money, paid, hand, second_hand, dealer_hand,
                               game_deck>>
    /\ (pc' = "dealer" /\ pc # "dealer") =>
          /\ pc = "settle"
          /\ dealer_turns = 0
          /\ dealer_turns' = 1
    /\ paid' # paid => pc \in {"peek", "dealer"} \/ pc' = "bet"
    /\ dealer_hand' # dealer_hand =>
          pc \in {"deal", "peek", "dealer"} \/ pc' = "bet"

C16_DealerTurn == [](C16_State) /\ [][C16_Step]_vars

\* C16 witness: the roster update is reached without a dealer's turn, in a
\* round without a dealer's natural where a player went bust: the dealer
\* holds two cards and that player was credited nothing.
C16_Witness ==
    /\ pc = "cleanup"
    /\ dealer_turns = 0
    /\ ~IsNatural(dealer_hand)
    /\ Len(dealer_hand.cards) = 2
    /\ \E p \in Roster :
          /\ hand[p].value > LIMIT
          /\ wager[p] > 0
          /\ paid[p] = <<0, 0>>
          /\ money[p] = money0[p] - wager[p]

\* Player p is being asked for a decision or for a double-down amount.
Deciding(p) ==
    /\ pc \in {"first", "dd1", "second", "dd2"}
    /\ players[cur] = p
    /\ pc = "first" => hand[p].value < LIMIT
    /\ pc = "second" => second_hand[p][1].value < LIMIT

\* C17: no player is asked for a decision who holds a natural or in a round
\* that the dealer's natural has resolved; a card is added to a hand by a
\* hit or a double-down only when its value is below 21; and split_hand
\* runs only on a two-card hand of one rank, for a player who has not split
\* in this round and whose bankroll is at least the wager.
C17_NoDecisionWhenResolved ==
    \A p \in PlayerIds :
        Deciding(p) =>
            /\ ~(splits[p] = 0 /\ IsNatural(hand[p]))
            /\ ~hand[p].blackjack
            /\ ~IsNatural(dealer_hand)

C17_Step ==
    \A p \in PlayerIds :
        /\ (pc \in {"first", "dd1"} /\ splits'[p] = splits[p]
              /\ Len(hand'[p].cards) > Len(hand[p].cards))
           => hand[p].value < LIMIT
        /\ (second_hand[p] # None /\ second_hand'[p] # second_hand[p])
           => /\ pc \in {"second", "dd2"}
              /\ second_hand[p][1].value < LIMIT
        /\ (hand'[p] # hand[p] /\ pc' # "bet")
           => pc \in {"deal", "reveal", "first", "dd1"}
        /\ (second_hand[p] = None /\ second_hand'[p] # None)
           => /\ splits'[p] = splits[p] + 1
              /\ Len(hand[p].cards) = 2
              /\ hand[p].cards[1].rank = hand[p].cards[2].rank
              /\ splits[p] = 0
              /\ ~(money[p] < wager[p])

C17_IllegalUnreachable ==
    [](C17_NoDecisionWhenResolved) /\ [][C17_Step]_vars

\* C17 witness: the decisions are over in a round where one player held a
\* natural and kept the two cards, and another player hit to exactly 21 and
\* got no card after that.
C17_Witness ==
    /\ pc = "settle"
    /\ ~IsNatural(dealer_hand)
    /\ \E p, q \in Roster :
          /\ splits[p] = 0 /\ IsNatural(hand[p])
          /\ splits[q] = 0 /\ Len(hand[q].cards) = 3
          /\ hand[q].value = LIMIT
          /\ stand[q]

\* The answer read on this step is one the open prompt does not accept: an
\* amount above the bankroll at the bet prompt, an amount above the hand's
\* wager or above the bankroll at the double-down prompt, or a token that is
\* not among the choices of the decision prompt.
InvalidAnswer ==
    /\ heard'.prompt = pc
    /\ LET p == players[cur] IN
       CASE pc = "bet" -> heard'.amount > money[p]
         [] pc = "dd1" ->
              heard'.amount > wager[p] \/ heard'.amount > money[p]
         [] pc = "dd2" ->
              heard'.amount > second_wager[p] \/ heard'.amount > money[p]
         [] pc = "first" ->
              /\ hand[p].value < LIMIT
              /\ heard'.token \notin
                   {"H", "S", "D"} \cup
                   (IF /\ Len(hand[p].cards) = 2
                       /\ hand[p].cards[1].rank = hand[p].cards[2].rank
                       /\ second_hand[p] = None
                       /\ money[p] >= wager[p]
                    THEN {"P"} ELSE {})
         [] pc = "second" ->
              /\ second_hand[p][1].value < LIMIT
              /\ heard'.token \notin {"H", "S", "D"}
         [] OTHER -> FALSE

\* C18: an answer that the open prompt does not accept changes no bankroll,
\* wager, hand, deck or stand flag, does not end the round, and leaves the
\* program at the same prompt of the same player.
C18_Step ==
    InvalidAnswer =>
        /\ UNCHANGED <<money, wager, second_wager, hand, second_hand,
                       dealer_hand, game_deck, stand, players, cashout>>
        /\ pc' = pc
        /\ cur' = cur

C18_InvalidAnswerIgnored == [][C18_Step]_vars

\* C18 witness: a player who bet the whole bankroll holds a pair, so that
\* s[P]lit is not among the choices, has answered P, and is at the same
\* prompt with the same two cards and no second hand.
C18_Witness ==
    /\ pc = "first"
    /\ heard = [prompt |-> "first", amount |-> 0, token |-> "P"]
    /\ LET p == players[cur] IN
       /\ Len(hand[p].cards) = 2
       /\ hand[p].cards[1].rank = hand[p].cards[2].rank
       /\ hand[p].value < LIMIT
       /\ second_hand[p] = None
       /\ splits[p] = 0
       /\ money[p] < wager[p]

\* A card as the deck made it: its rank and suit, whatever its points are now.
Face(card) == <<card.rank, card.suit>>

\* The faces of the cards of a hand, of a player's second hand, of a set of
\* cards.
FacesOf(h) == {Face(h.cards[i]) : i \in 1..Len(h.cards)}
SecondFaces(p) ==
    IF second_hand[p] = None THEN {} ELSE FacesOf(second_hand[p][1])
DeckFaces(deck) == {Face(c) : c \in deck}

\* The number of cards in all hands.
RECURSIVE CardsHeld(_)
CardsHeld(ids) ==
    IF ids = {} THEN Len(dealer_hand.cards)
    ELSE LET p == CHOOSE q \in ids : TRUE
         IN Len(hand[p].cards)
            + (IF second_hand[p] = None THEN 0
               ELSE Len(second_hand[p][1].cards))
            + CardsHeld(ids \ {p})

\* C19: from the start of the first round on, the deck and the hands (each
\* player's primary and second hand, the dealer's) hold every card of the
\* deck exactly once; a step within a round only takes cards from the deck
\* into hands, or a card from a player's primary hand into that player's
\* second hand.
C19_EveryCardOnce ==
    round >= 1 =>
        /\ Cardinality(DeckFaces(game_deck)) + CardsHeld(PlayerIds)
              = Cardinality(Deck)
        /\ DeckFaces(game_deck) \cup FacesOf(dealer_hand)
              \cup UNION {FacesOf(hand[p]) \cup SecondFaces(p) : p \in PlayerIds}
              = DeckFaces(Deck)

C19_Step ==
    (round >= 1 /\ pc' # "bet") =>
        LET dealt == DeckFaces(game_deck) \ DeckFaces(game_deck')
        IN /\ DeckFaces(game_deck') \subseteq DeckFaces(game_deck)
           /\ FacesOf(dealer_hand) \subseteq FacesOf(dealer_hand')
           /\ FacesOf(dealer_hand') \ FacesOf(dealer_hand) \subseteq dealt
           /\ \A p \in PlayerIds :
                 /\ SecondFaces(p) \subseteq SecondFaces(p)'
                 /\ FacesOf(hand'[p]) \ FacesOf(hand[p]) \subseteq dealt
                 /\ FacesOf(hand[p]) \ FacesOf(hand'[p]) \subseteq SecondFaces(p)'
                 /\ SecondFaces(p)' \ SecondFaces(p)
                       \subseteq dealt \cup FacesOf(hand[p])

C19_CardsConserved == [](C19_EveryCardOnce) /\ [][C19_Step]_vars

\* C19 witness: a round is settled in which a player split, doubled down on
\* the first hand and hit the second; cards are left in the deck, and the
\* deck and the hands together count as many cards as the deck has.
C19_Witness ==
    /\ pc = "cleanup"
    /\ game_deck # {}
    /\ \E p \in Roster :
          /\ splits[p] = 1
          /\ doubled[p][1] # None
          /\ doubled[p][2] = None
          /\ Len(second_hand[p][1].cards) >= 3
    /\ Cardinality(game_deck) + CardsHeld(PlayerIds) = Cardinality(Deck)

\* The blackjack total of a sequence of cards, from their ranks: with every
\* Ace as 1, plus 10 for as many Aces as can count 11 without passing 21.
RECURSIVE LowTotal(_)
LowTotal(cards) ==
    IF cards = <<>> THEN 0
    ELSE (IF IsAce(cards[1]) THEN 1 ELSE RANKS_POINTS[cards[1].rank])
         + LowTotal(Tail(cards))

BestTotal(cards) ==
    LET aces == Cardinality({i \in 1..Len(cards) : IsAce(cards[i])})
        totals == {LowTotal(cards) + 10 * k : k \in 0..aces}
        fitting == {t \in totals : t <= LIMIT}
    IN IF fitting = {} THEN LowTotal(cards)
       ELSE CHOOSE t \in fitting : \A u \in fitting : u <= t

\* C20: the value of every hand, during and after the deal, after every
\* draw_card and after split_hand, is the blackjack total of its cards: the
\* largest total of at most 21 with each Ace as 1 or 11, or the total with
\* every Ace as 1 when there is none.
C20_ValueIsBestTotal ==
    \A h \in AllHands : h.value = BestTotal(h.cards)

\* C20 witness: a player split a pair, then hit the first hand; the hand
\* holds an Ace counted 11 and an Ace counted 1, and its value is its
\* total with exactly one Ace as 11.
C20_Witness ==
    /\ pc = "first"
    /\ LET p == players[cur]
           h == hand[p]
       IN /\ splits[p] = 1
          /\ Len(h.cards) = 3
          /\ \E i, j \in 1..3 :
                /\ IsAce(h.cards[i]) /\ h.cards[i].points = 11
                /\ IsAce(h.cards[j]) /\ h.cards[j].points = 1
          /\ h.value = LowTotal(h.cards) + 10

\* ------------------------------------------- the table at the program's size
\* play_game with the program's own deck of 52 cards and its table of up to
\* 7 players, for one outcome of shuffle and for players who bet 1, split or
\* hit at every decision and leave after the round.
SUITS == <<"spades", "hearts", "diamonds", "clubs">>

FullDeck == {Card(r, s) : r \in DOMAIN RANKS_POINTS, s \in 1..Len(SUITS)}

\* `if player_count < 8`
Seats == 7

\* The deck whose cards are dealt in the order of `ranks`, each rank in the
\* order of the suits.
Stacked(ranks) ==
    [i \in 1..Len(ranks) |->
        Card(ranks[i], Cardinality({j \in 1..i : ranks[j] = ranks[i]}))]

\* One order in which shuffle can leave the deck, from the card dealt first.
Shuffles ==
    { Stacked(<< "2", "3", "4", "5", "6", "7", "8", "9",
                 "2", "3", "4", "5", "6", "7", "8", "9",
                 "7", "5", "2", "10", "4", "Q", "6", "8", "A", "J", "10", "J",
                 "Q", "5", "A", "2", "6", "Q", "J", "K", "J", "3", "3", "8",
                 "K", "K", "A", "9", "A", "9", "10", "Q", "10", "4", "K", "7" >>) }

TableBets == {1}
TableChoices == {"P", "H"}
TableAgain == {"N"}

TableInit == InitWith(Seats)

TableStartRound == StartRoundWith(FullDeck, Shuffles)

TableNext ==
    \/ TableStartRound
    \/ GameOver
    \/ \E input \in TableBets : make_bet(input)
    \/ deal_hands
    \/ reveal_initial_hand
    \/ dealer_peek
    \/ player_turn
    \/ \E choice \in TableChoices : first_hand_choice(choice)
    \/ after_first_hand
    \/ \E choice \in TableChoices : second_hand_choice(choice)
    \/ after_second_hand
    \/ dealer_gate
    \/ dealer_draw
    \/ dealer_settle
    \/ remove_bankrupt_players
    \/ \E again \in TableAgain : ask_to_continue(again)

TableSpec == TableInit /\ [][TableNext]_vars

\* C12: in a round of at most 7 players with the deck of 52 cards, Deck.deal
\* is never called on an empty deck.
C12_DeckSuffices ==
    (Len(players) <= Seats /\ Cardinality(FullDeck) = 52) => pc # "crashed"

\* ------------------------------------------------- the round runs to its end
\* play_game is one sequential program: a statement that can run does run, and
\* a prompt that is answered until an answer is accepted moves the program on.
\* Both are steps that change the program's state, so the program being left
\* forever before such a step is excluded.
FairTableSpec == TableSpec /\ WF_engine(TableNext)

\* The round is under way: from the first bet to the answers of
\* ask_to_continue.
RoundBegun == pc = "bet"

\* play_game is back at `while players:`, after remove_bankrupt_players and,
\* with players left, ask_to_continue.
RoundEnded == pc = "round"

\* C21: a round that has begun ends, when every prompt gets an accepted
\* answer: the decision loop of every hand and the dealer's draw loop end and
\* the round reaches remove_bankrupt_players and ask_to_continue.
C21_RoundTerminates == RoundBegun ~> RoundEnded
====
